---- MODULE Spec2Model ----
(***************************************************************************)
(* Model of generate_mealplan.py: the linear pipeline                      *)
(*   find_api_urls / guess_api_by_slug -> fetch_json -> extract_items      *)
(*   -> build_plan -> format_plan -> write.                                *)
(*                                                                         *)
(* Representation.  A Python str that the code inspects character by       *)
(* character (an item name) is a sequence of one-character strings.  A     *)
(* value that may be None is a sequence of length 0 (None) or 1 (the       *)
(* value).  A dict key read with .get(k, default) is a record              *)
(* [present, value], because the default applies only to an absent key.    *)
(* Calories are integers (float() of an integral JSON number is exact).    *)
(***************************************************************************)
EXTENDS Integers, Sequences, FiniteSets, TLC

VARIABLES
    pc,            \* position of the run in main and in the function it is in
    err,           \* the function whose exception ended the run, "" if none
    today,         \* datetime.date.today()
    page_url,      \* args.page_url, as urlparse sees it
    html,          \* r.text of the page, as a sequence of URL-shaped tokens
    candidates,    \* main: candidates
    fetch_i,       \* fetch_json: number of candidates the for loop has taken
    requested,     \* history: the requests fetch_json issued, with the answers
    data_from,     \* index of the candidate whose r.json() is data, 0 if none
    week_json,     \* history: what the two days keys of data hold
    days_src,      \* history: the key the days list came from
    days_left,     \* extract_items: day records the for loop has yet to take
    dates_seen,    \* history: the date fields of the day records taken
    entries_left,  \* extract_items: entries of the current day yet to take
    seen,          \* history: the entries of today's day records taken so far
    items,         \* extract_items: items; then the argument of build_plan
    items_sorted,  \* build_plan: items_sorted
    plan,          \* build_plan: plan
    used,          \* build_plan: used
    meal_idx,      \* build_plan: number of slots the for loop has taken
    meal_total,    \* build_plan: meal_total
    picks,         \* history: the index in items_sorted of each pick, in order
    report,        \* format_plan: the rendered totals
    written        \* main: the report file has been written and printed

fetchVars   == <<page_url, html, candidates, fetch_i, requested, data_from>>
extractVars == <<week_json, days_src, days_left, dates_seen, entries_left,
                 seen>>
planVars    == <<items_sorted, plan, used, meal_idx, meal_total, picks>>
outVars     == <<report, written>>
vars == <<pc, err, today, fetchVars, extractVars, items, planVars, outVars>>

(***************************************************************************)
(* Bounds of the model.                                                    *)
(***************************************************************************)
MaxItems   == 3    \* extracted items handed to build_plan on its own
MaxHtml    == 2    \* URL-shaped tokens in the page
PipeDays   == 1    \* day records, in a run of the whole pipeline
PipeEntries == 1   \* menu entries, in a run of the whole pipeline
MaxDays    == 2    \* day records in the days list
MaxEntries == 2    \* menu entries in the day records of one menu

(***************************************************************************)
(* Python values.                                                          *)
(***************************************************************************)
None      == <<>>
Some(x)   == <<x>>
IsNone(o) == o = <<>>
Val(o)    == o[1]

Range(s) == {s[i] : i \in 1..Len(s)}

SeqsUpTo(S, n) == UNION {[1..k -> S] : k \in 0..n}

RECURSIVE SumCalories(_)
SumCalories(s) ==
    IF s = <<>> THEN 0
    ELSE SumCalories(SubSeq(s, 1, Len(s) - 1)) + s[Len(s)].calories

(***************************************************************************)
(* Item names.                                                             *)
(***************************************************************************)
nSaladBar       == <<"S","a","l","a","d"," ","b","a","r">>
nDeliSandwich   == <<"D","e","l","i"," ","s","a","n","d","w","i","c","h">>
nYogurt         == <<"Y","o","g","u","r","t">>
nPizza          == <<"P","i","z","z","a">>
nChickenTenders == <<"C","h","i","c","k","e","n"," ","t","e","n","d","e","r","s">>
nFrenchFries    == <<"F","r","e","n","c","h"," ","f","r","i","e","s">>
nGrilledChicken == <<"G","r","i","l","l","e","d"," ","c","h","i","c","k","e","n">>
nPastaWithSauce == <<"P","a","s","t","a"," ","w","i","t","h"," ","s","a","u","c","e">>
nUnknown        == <<"U","n","k","n","o","w","n">>
nBurger         == <<"B","u","r","g","e","r">>
nSoda           == <<"S","o","d","a">>

Item(n, c) == [name |-> n, calories |-> c]

ALWAYS_AVAILABLE ==
    << Item(nSaladBar, 300),
       Item(nDeliSandwich, 600),
       Item(nYogurt, 150),
       Item(nPizza, 350),
       Item(nChickenTenders, 400),
       Item(nFrenchFries, 300),
       Item(nGrilledChicken, 250),
       Item(nPastaWithSauce, 500) >>

(***************************************************************************)
(* build_plan                                                              *)
(***************************************************************************)
CalorieGoal == 1200
SlotCap     == 6
MealOrder   == <<"Breakfast", "Dinner">>

\* items = items + ALWAYS_AVAILABLE
CombinedExtractedOnly(its) == its
Combined(its) == its \o ALWAYS_AVAILABLE

\* sorted(items, key=calories, reverse=True): stable, so an item goes after
\* every item already placed whose calories are >= its own.
InsertDesc(s, x) ==
    LET k == Cardinality({i \in 1..Len(s) : s[i].calories >= x.calories})
    IN  SubSeq(s, 1, k) \o <<x>> \o SubSeq(s, k + 1, Len(s))

RECURSIVE SortedDesc(_)
SortedUnsorted(s) == s
SortedDesc(s) ==
    IF s = <<>> THEN <<>>
    ELSE InsertDesc(SortedDesc(SubSeq(s, 1, Len(s) - 1)), s[Len(s)])

\* the for loop over items_sorted: the index of the first item whose name is
\* not in used, 0 when the scan ends without a break
FirstIgnoringUsed(s, u) == IF s = <<>> THEN 0 ELSE 1
FirstUnused(s, u) ==
    LET free == {i \in 1..Len(s) : s[i].name \notin u}
    IN  IF free = {} THEN 0 ELSE CHOOSE i \in free : \A j \in free : i <= j

\* while meal_total < 1200 and len(plan[meal]) < 6
KeepFillingInclusive(total, n) == total <= CalorieGoal /\ n < SlotCap
KeepFilling(total, n) == total < CalorieGoal /\ n < SlotCap

CurMeal == MealOrder[meal_idx]

BuildPlanEnter ==
    /\ pc = "build_plan"
    /\ items_sorted' = SortedDesc(Combined(items))
    /\ plan' = [m \in Range(MealOrder) |-> <<>>]
    /\ used' = {}
    /\ meal_idx' = 0
    /\ meal_total' = 0
    /\ picks' = <<>>
    /\ pc' = "for_meal"
    /\ UNCHANGED <<err, today, fetchVars, extractVars, items, outVars>>

\* for meal in plan: the next slot, with meal_total = 0
ForMeal ==
    /\ pc = "for_meal"
    /\ meal_idx < Len(MealOrder)
    /\ meal_idx' = meal_idx + 1
    /\ meal_total' = 0
    /\ pc' = "while"
    /\ UNCHANGED <<err, today, fetchVars, extractVars, items, items_sorted,
                   plan, used, picks, outVars>>

\* One pass of the while body: the scan, and the append if it breaks.  A scan
\* that finds nothing changes nothing and the while loop tests again.
WhileBody ==
    /\ pc = "while"
    /\ KeepFilling(meal_total, Len(plan[CurMeal]))
    /\ LET i == FirstUnused(items_sorted, used)
       IN  IF i = 0
           THEN UNCHANGED <<plan, used, meal_total, picks>>
           ELSE /\ plan' = [plan EXCEPT ![CurMeal] = Append(@, items_sorted[i])]
                /\ used' = used \cup {items_sorted[i].name}
                /\ meal_total' = meal_total + items_sorted[i].calories
                /\ picks' = Append(picks, i)
    /\ pc' = "while"
    /\ UNCHANGED <<err, today, fetchVars, extractVars, items, items_sorted,
                   meal_idx, outVars>>

WhileExit ==
    /\ pc = "while"
    /\ ~KeepFilling(meal_total, Len(plan[CurMeal]))
    /\ pc' = "for_meal"
    /\ UNCHANGED <<err, today, fetchVars, extractVars, items, planVars, outVars>>

BuildPlanReturn ==
    /\ pc = "for_meal"
    /\ meal_idx = Len(MealOrder)
    /\ pc' = "format_plan"
    /\ UNCHANGED <<err, today, fetchVars, extractVars, items, planVars, outVars>>

(***************************************************************************)
(* The state before main has reached a function, and the clock.            *)
(***************************************************************************)
Date(y, m, d) == [year |-> y, month |-> m, day |-> d]
TodayDates == {Date(2026, 11, 2)}

NoPage == [hostname |-> <<>>, path |-> <<>>]
NoWeek == [days |-> "none", menu_days |-> "none"]
NoPlan == [m \in Range(MealOrder) |-> <<>>]
NoReport == [subtotals |-> <<>>, total |-> 0]

InitRest ==
    /\ err = ""
    /\ page_url = NoPage
    /\ html = None
    /\ candidates = <<>>
    /\ fetch_i = 0
    /\ requested = <<>>
    /\ data_from = 0
    /\ week_json = NoWeek
    /\ days_src = ""
    /\ days_left = 0
    /\ dates_seen = {}
    /\ entries_left = 0
    /\ seen = <<>>
    /\ items_sorted = <<>>
    /\ plan = NoPlan
    /\ used = {}
    /\ meal_idx = 0
    /\ meal_total = 0
    /\ picks = <<>>
    /\ report = NoReport
    /\ written = FALSE

(***************************************************************************)
(* find_api_urls, guess_api_by_slug                                        *)
(***************************************************************************)
Url(sch, h, p, q) == [scheme |-> sch, host |-> h, path |-> p, query |-> q]

ApiSuffix == <<"api", "nutrislice", "com">>
ApiPrefix == <<"menu", "api", "weeks">>

\* one match of the regular expression of line 33: http or https, a host
\* that ends in .api.nutrislice.com after at least one character, the path
\* /menu/api/weeks/ and at least one character after it
MatchesApi(u) ==
    /\ u.scheme \in {"http", "https"}
    /\ Len(u.host) > Len(ApiSuffix)
    /\ SubSeq(u.host, Len(u.host) - Len(ApiSuffix) + 1, Len(u.host)) = ApiSuffix
    /\ Len(u.path) > Len(ApiPrefix)
    /\ SubSeq(u.path, 1, Len(ApiPrefix)) = ApiPrefix
    /\ u.path[Len(ApiPrefix) + 1] # ""

\* re.findall over the page: every match, in order, duplicates included
LinkScan(h) == SelectSeq(h, MatchesApi)

\* re.search(r'/menu/([^/?#]+)', p.path): the segment after the first
\* segment "menu" that has a non-empty segment after it
SchoolSlug(path) ==
    LET hits == {i \in 1..(Len(path) - 1) : path[i] = "menu" /\ path[i + 1] # ""}
    IN  IF hits = {} THEN None
        ELSE Some(path[(CHOOSE i \in hits : \A j \in hits : i <= j) + 1])

Meals == <<"breakfast", "lunch", "dinner">>

GuessedUrl(district, slug, meal, d) ==
    Url("https", <<district>> \o ApiSuffix,
        ApiPrefix \o <<"school", slug, "menu-type", meal,
                       ToString(d.year), ToString(d.month), ToString(d.day), "">>,
        "format=json")

guess_api_by_slug(u, d) ==
    IF IsNone(u.hostname) THEN <<>>
    ELSE IF IsNone(SchoolSlug(u.path)) THEN <<>>
    ELSE [i \in 1..Len(Meals) |->
             GuessedUrl(Val(u.hostname)[1], Val(SchoolSlug(u.path)), Meals[i], d)]

\* find_api_urls(page_url) or guess_api_by_slug(page_url)
ChooseBoth(links, guessed) == links \o guessed
ChooseCandidates(links, guessed) == IF links # <<>> THEN links ELSE guessed

PageHost == <<"district", "nutrislice", "com">>
PageUrls ==
    { [hostname |-> Some(PageHost), path |-> <<"menu", "north-hall", "lunch">>],
      [hostname |-> Some(PageHost), path |-> <<"menus", "north-hall">>],
      [hostname |-> Some(PageHost), path |-> <<"menu", "">>],
      [hostname |-> None, path |-> <<"menu", "north-hall">>] }

HtmlTokens ==
    { Url("https", <<"district">> \o ApiSuffix,
          ApiPrefix \o <<"school", "north-hall">>, ""),
      Url("http", <<"other">> \o ApiSuffix, ApiPrefix \o <<"7">>, "format=json"),
      Url("https", <<"cdn", "nutrislice", "com">>, ApiPrefix \o <<"7">>, ""),
      Url("https", <<"district">> \o ApiSuffix, ApiPrefix \o <<"">>, "") }

\* requests.get(page_url) raises: a URL without a host always does (requests
\* rejects it), any other URL may (connection error, timeout)
FindApiUrlsRaises ==
    /\ pc = "find_api_urls"
    /\ pc' = "error"
    /\ err' = "find_api_urls"
    /\ UNCHANGED <<today, fetchVars, extractVars, items, planVars, outVars>>

\* requests.get(page_url) answers (with any status: none is tested) and the
\* page is scanned; main takes the matches, or the guesses when there is none
FindApiUrls ==
    /\ pc = "find_api_urls"
    /\ ~IsNone(page_url.hostname)
    /\ \E h \in SeqsUpTo(HtmlTokens, MaxHtml) :
          /\ html' = Some(h)
          /\ candidates' = ChooseCandidates(LinkScan(h),
                                            guess_api_by_slug(page_url, today))
    /\ pc' = "fetch_json"
    /\ UNCHANGED <<err, today, page_url, fetch_i, requested, data_from,
                   extractVars, items, planVars, outVars>>

(***************************************************************************)
(* fetch_json                                                              *)
(***************************************************************************)
StatusOK == 200

Response(raised, status, parses) ==
    [raised |-> raised, status |-> status, parses |-> parses]

\* what a GET of a candidate can bring: an exception, or a response with a
\* status and a body that r.json() parses or not
Responses ==
    { Response(TRUE, 0, FALSE),
      Response(FALSE, 404, FALSE),
      Response(FALSE, 404, TRUE),
      Response(FALSE, StatusOK, FALSE),
      Response(FALSE, StatusOK, TRUE) }

\* the try block returns: no exception from get, status 200, and no
\* exception from r.json() (the bare except catches that one too)
AcceptsUnparsed(r) == ~r.raised /\ r.status = StatusOK
Accepts(r) == ~r.raised /\ r.status = StatusOK /\ r.parses

\* for url in candidates: one candidate
FetchTry ==
    /\ pc = "fetch_json"
    /\ fetch_i < Len(candidates)
    /\ \E r \in Responses :
          /\ requested' = Append(requested,
                                 [url |-> candidates[fetch_i + 1], resp |-> r])
          /\ fetch_i' = fetch_i + 1
          /\ IF Accepts(r)
             THEN /\ data_from' = fetch_i + 1
                  /\ pc' = "extract_items"
             ELSE /\ pc' = "fetch_json"
                  /\ UNCHANGED data_from
    /\ UNCHANGED <<err, today, page_url, html, candidates, extractVars, items,
                   planVars, outVars>>

\* the loop ends without a return: raise RuntimeError
FetchRaises ==
    /\ pc = "fetch_json"
    /\ fetch_i = Len(candidates)
    /\ pc' = "error"
    /\ err' = "fetch_json"
    /\ UNCHANGED <<today, fetchVars, extractVars, items, planVars, outVars>>

(***************************************************************************)
(* extract_items                                                           *)
(***************************************************************************)
FallbackCalories == 250

Uppers == <<"A","B","C","D","E","F","G","H","I","J","K","L","M",
            "N","O","P","Q","R","S","T","U","V","W","X","Y","Z">>
Lowers == <<"a","b","c","d","e","f","g","h","i","j","k","l","m",
            "n","o","p","q","r","s","t","u","v","w","x","y","z">>
Whitespace == {" ", "\t", "\n"}

\* str.lower(), one character
LowerChar(c) ==
    IF \E i \in 1..Len(Uppers) : Uppers[i] = c
    THEN Lowers[CHOOSE i \in 1..Len(Uppers) : Uppers[i] = c]
    ELSE c

\* str.lower()
lower(s) == [i \in 1..Len(s) |-> LowerChar(s[i])]

\* str.strip()
strip(s) ==
    LET keep == {i \in 1..Len(s) : s[i] \notin Whitespace}
    IN  IF keep = {} THEN <<>>
        ELSE SubSeq(s, CHOOSE i \in keep : \A j \in keep : i <= j,
                       CHOOSE i \in keep : \A j \in keep : i >= j)

\* sub in s
Contains(s, sub) ==
    \E i \in 0..(Len(s) - Len(sub)) : SubSeq(s, i + 1, i + Len(sub)) = sub

sFish    == <<"f","i","s","h">>
sSalmon  == <<"s","a","l","m","o","n">>
sTilapia == <<"t","i","l","a","p","i","a">>

\* the test of line 69 on the stripped name
Excluded(name) ==
    \/ Contains(lower(name), sFish)
    \/ Contains(lower(name), sSalmon)
    \/ Contains(lower(name), sTilapia)

\* truth value of an optional str / an optional number
TruthyStr(o) == ~IsNone(o) /\ Val(o) # <<>>
TruthyNum(o) == ~IsNone(o) /\ Val(o) # 0

\* dict.get(key, default): the default stands in for an absent key only
Absent     == [present |-> FALSE, value |-> None]
Present(v) == [present |-> TRUE, value |-> v]
GetDefault(k, default) == IF k.present THEN k.value ELSE default

Nutrition(c) == [calories |-> c]
Food(n, r)   == [name |-> n, rounded_nutrition_info |-> r]
Entry(f, t, a) == [food |-> f, text |-> t, aggregated_data |-> a]

\* food = mi.get('food') or {};  food.get('name')
FoodName(mi) == IF IsNone(mi.food) THEN None ELSE Val(mi.food).name

\* name = (food.get('name') or mi.get('text') or 'Unknown').strip()
EntryName(mi) ==
    strip(IF TruthyStr(FoodName(mi)) THEN Val(FoodName(mi))
          ELSE IF TruthyStr(mi.text) THEN Val(mi.text)
          ELSE nUnknown)

\* rounded = food.get('rounded_nutrition_info') or {};  rounded.get('calories')
RoundedCalories(mi) ==
    IF IsNone(mi.food) THEN None
    ELSE IF IsNone(Val(mi.food).rounded_nutrition_info) THEN None
    ELSE Val(Val(mi.food).rounded_nutrition_info).calories

\* mi.get('aggregated_data', {}): None when the key is there and holds null
AggregatedData(mi) == GetDefault(mi.aggregated_data, Some(Nutrition(None)))

\* the elif of line 74 is evaluated, and .get is applied to None
EntryRaises(mi) ==
    /\ ~Excluded(EntryName(mi))
    /\ ~TruthyNum(RoundedCalories(mi))
    /\ IsNone(AggregatedData(mi))

\* cals of lines 71..75, where no exception is raised
EntryCals(mi) ==
    IF TruthyNum(RoundedCalories(mi)) THEN RoundedCalories(mi)
    ELSE IF TruthyNum(Val(AggregatedData(mi)).calories)
         THEN Val(AggregatedData(mi)).calories
    ELSE None

\* float(cals) if cals else 250
EntryCalories(mi) ==
    IF TruthyNum(EntryCals(mi)) THEN Val(EntryCals(mi)) ELSE FallbackCalories

\* strftime("%Y-%m-%d"): month and day in two digits
Pad2(n) == IF n < 10 THEN "0" \o ToString(n) ELSE ToString(n)
strftimeUnpadded(d) ==
    ToString(d.year) \o "-" \o ToString(d.month) \o "-" \o ToString(d.day)
strftime(d) ==
    ToString(d.year) \o "-" \o Pad2(d.month) \o "-" \o Pad2(d.day)

\* d.get('date') == today_str
IsToday(date) == ~IsNone(date) /\ Val(date) = strftime(today)

\* week_json.get('days') or week_json.get('menu_days') or []
DaysKinds == {"none", "empty", "list"}
WeekKinds == [days : DaysKinds, menu_days : DaysKinds]
DaysSource(w) ==
    IF w.days = "list" THEN "days"
    ELSE IF w.menu_days = "list" THEN "menu_days"
    ELSE "default"

DayDates == {None, Some("2026-11-02"), Some("2026-11-2")}

\* the menu_items key of a day record: absent, null, or a list of n entries
MenuItemsKeys(room) ==
    {Absent, Present(None)} \cup {Present(Some(n)) : n \in 0..room}

\* the days list is chosen; W is what the two keys may hold, maxDays the
\* longest list
ExtractEnter(W, maxDays) ==
    /\ pc = "extract_items"
    /\ \E w \in W, n \in 0..maxDays :
          /\ (DaysSource(w) = "default") <=> (n = 0)
          /\ week_json' = w
          /\ days_src' = DaysSource(w)
          /\ days_left' = n
    /\ items' = <<>>
    /\ dates_seen' = {}
    /\ entries_left' = 0
    /\ seen' = <<>>
    /\ pc' = "for_d"
    /\ UNCHANGED <<err, today, fetchVars, planVars, outVars>>

\* for d in days: one day record.  Its entries are taken one by one by
\* ForEntry; a day of another date is skipped whole.
ForDay(maxEntries) ==
    /\ pc = "for_d"
    /\ days_left > 0
    /\ \E date \in DayDates, mk \in MenuItemsKeys(maxEntries - Len(seen)) :
          /\ days_left' = days_left - 1
          /\ dates_seen' = dates_seen \cup {date}
          /\ IF ~IsToday(date)
             THEN /\ pc' = "for_d"
                  /\ UNCHANGED <<err, entries_left>>
             ELSE LET lst == GetDefault(mk, Some(0))
                  IN  IF IsNone(lst)
                      THEN /\ pc' = "error"
                           /\ err' = "extract_items"
                           /\ UNCHANGED entries_left
                      ELSE /\ pc' = "for_mi"
                           /\ entries_left' = Val(lst)
                           /\ UNCHANGED err
    /\ UNCHANGED <<today, fetchVars, week_json, days_src, seen, items,
                   planVars, outVars>>

\* for mi in d.get('menu_items', []): one entry, drawn from E
ForEntry(E) ==
    /\ pc = "for_mi"
    /\ entries_left > 0
    /\ \E mi \in E :
          /\ seen' = Append(seen, mi)
          /\ entries_left' = entries_left - 1
          /\ IF EntryRaises(mi)
             THEN /\ pc' = "error"
                  /\ err' = "extract_items"
                  /\ UNCHANGED items
             ELSE /\ pc' = "for_mi"
                  /\ items' = IF Excluded(EntryName(mi)) THEN items
                              ELSE Append(items, Item(EntryName(mi),
                                                      EntryCalories(mi)))
                  /\ UNCHANGED err
    /\ UNCHANGED <<today, fetchVars, week_json, days_src, days_left,
                   dates_seen, planVars, outVars>>

ForEntryEnd ==
    /\ pc = "for_mi"
    /\ entries_left = 0
    /\ pc' = "for_d"
    /\ UNCHANGED <<err, today, fetchVars, extractVars, items, planVars, outVars>>

ExtractReturn ==
    /\ pc = "for_d"
    /\ days_left = 0
    /\ pc' = "build_plan"
    /\ UNCHANGED <<err, today, fetchVars, extractVars, items, planVars, outVars>>

(***************************************************************************)
(* extract_items on its own, for bounded menu data.                        *)
(***************************************************************************)
nRiceSpaced == <<" ","R","i","c","e"," ">>
nRice       == <<"R","i","c","e">>
nBigFish    == <<"B","i","g","F","i","S","H">>
nSalmonUp   == <<"S","A","L","M","O","N">>
nFisH       == <<"f","i","s"," ","h">>
nSoup       == <<"S","o","u","p">>
nTilapiaMix == <<"T","i","l","a","P","i","a"," ">>

OptOf(S) == {None} \cup {Some(x) : x \in S}

FoodNames == {<<>>, nRiceSpaced, nBigFish, nSalmonUp, nFisH}
RoundedVals == {None, Some(Nutrition(Some(0))), Some(Nutrition(Some(120)))}
AggregatedKeys == {Absent, Present(None), Present(Some(Nutrition(Some(0)))),
                   Present(Some(Nutrition(Some(310))))}

\* entries that differ in where the name comes from and what it holds
NameEntries ==
    {Entry(f, t, Absent) :
        f \in {None} \cup {Some(Food(n, None)) : n \in OptOf(FoodNames)},
        t \in {None, Some(nTilapiaMix)}}
    \cup {Entry(None, Some(nSoup), Absent)}
\* entries that differ in where the calories come from and what they hold
CalorieEntries ==
    {Entry(Some(Food(Some(nRice), r)), None, a) :
        r \in RoundedVals, a \in AggregatedKeys}
    \cup {Entry(Some(Food(Some(nRice), Some(Nutrition(None)))), None,
                Present(Some(Nutrition(None)))),
          Entry(None, Some(nTilapiaMix), Present(None))}
Entries == NameEntries \cup CalorieEntries

\* the entries a run of the whole pipeline draws from: one kept, one
\* excluded, one whose aggregated_data holds null
MainEntries ==
    { Entry(Some(Food(Some(nRice), Some(Nutrition(Some(120))))), None, Absent),
      Entry(None, Some(nTilapiaMix), Absent),
      Entry(Some(Food(Some(nRice), None)), None, Present(None)) }

InitExtract ==
    /\ pc = "extract_items"
    /\ today \in TodayDates
    /\ items = <<>>
    /\ InitRest

NextExtract ==
    \/ ExtractEnter(WeekKinds, MaxDays)
    \/ ForDay(MaxEntries)
    \/ ForEntry(Entries)
    \/ ForEntryEnd
    \/ ExtractReturn

SpecExtract == InitExtract /\ [][NextExtract]_vars

\* the same, with the few entries of MainEntries and every combination of
\* the two days keys
NextDays ==
    \/ ExtractEnter(WeekKinds, MaxDays)
    \/ ForDay(MaxEntries)
    \/ ForEntry(MainEntries)
    \/ ForEntryEnd
    \/ ExtractReturn

SpecDays == InitExtract /\ [][NextDays]_vars


(***************************************************************************)
(* build_plan on its own, for every bounded list of extracted items.       *)
(***************************************************************************)
PlanNames    == {nBurger, nSoda, nPizza}
PlanCalories == {-50, 0, 350, 900, 1250}
PlanItems    == {Item(n, c) : n \in PlanNames, c \in PlanCalories}

InitPlan ==
    /\ pc = "build_plan"
    /\ today \in TodayDates
    /\ items \in SeqsUpTo(PlanItems, MaxItems)
    /\ InitRest

NextPlan ==
    \/ BuildPlanEnter
    \/ ForMeal
    \/ WhileBody
    \/ WhileExit
    \/ BuildPlanReturn

SpecPlan == InitPlan /\ [][NextPlan]_vars

(***************************************************************************)
(* format_plan, the write, and main as a whole.                            *)
(***************************************************************************)
\* the subtotal of each slot and the daily total; int() of an integer is
\* that integer
format_plan(p) ==
    [subtotals |-> [i \in 1..Len(MealOrder) |-> SumCalories(p[MealOrder[i]])],
     total |-> SumCalories(p["Breakfast"] \o p["Dinner"])]

FormatPlan ==
    /\ pc = "format_plan"
    /\ report' = format_plan(plan)
    /\ pc' = "write"
    /\ UNCHANGED <<err, today, fetchVars, extractVars, items, planVars, written>>

WriteReport ==
    /\ pc = "write"
    /\ written' = TRUE
    /\ pc' = "done"
    /\ UNCHANGED <<err, today, fetchVars, extractVars, items, planVars, report>>

\* the days keys a run of the whole pipeline draws from
MainWeekKinds ==
    { [days |-> "list", menu_days |-> "none"],
      [days |-> "empty", menu_days |-> "list"],
      [days |-> "none", menu_days |-> "none"] }

Init ==
    /\ pc = "find_api_urls"
    /\ today \in TodayDates
    /\ page_url \in PageUrls
    /\ items = <<>>
    /\ err = ""
    /\ html = None
    /\ candidates = <<>>
    /\ fetch_i = 0
    /\ requested = <<>>
    /\ data_from = 0
    /\ week_json = NoWeek
    /\ days_src = ""
    /\ days_left = 0
    /\ dates_seen = {}
    /\ entries_left = 0
    /\ seen = <<>>
    /\ items_sorted = <<>>
    /\ plan = NoPlan
    /\ used = {}
    /\ meal_idx = 0
    /\ meal_total = 0
    /\ picks = <<>>
    /\ report = NoReport
    /\ written = FALSE

Next ==
    \/ FindApiUrlsRaises
    \/ FindApiUrls
    \/ FetchTry
    \/ FetchRaises
    \/ ExtractEnter(MainWeekKinds, PipeDays)
    \/ ForDay(PipeEntries)
    \/ ForEntry(MainEntries)
    \/ ForEntryEnd
    \/ ExtractReturn
    \/ BuildPlanEnter
    \/ ForMeal
    \/ WhileBody
    \/ WhileExit
    \/ BuildPlanReturn
    \/ FormatPlan
    \/ WriteReport

Spec == Init /\ [][Next]_vars

(***************************************************************************)
(* Claims about build_plan.                                                *)
(***************************************************************************)
PlanItemsInOrder == plan["Breakfast"] \o plan["Dinner"]
Returned == pc = "format_plan"

\* slot number k of MealOrder has left its while loop
SlotFinished(k) ==
    \/ meal_idx > k
    \/ meal_idx = k /\ pc \in {"for_meal", "format_plan"}

\* C1: the plan never holds the same item name twice, neither across the two
\* slots nor within one slot, whatever names the extracted items have.
C1_NamesUnique ==
    LET p == PlanItemsInOrder
    IN  \A i, j \in 1..Len(p) : p[i].name = p[j].name => i = j

\* C1 witness: build_plan has returned for a list that repeats a name which
\* is also a catalog name, and that name is in the plan.
C1_Witness ==
    /\ Returned
    /\ Len(items) >= 2
    /\ items[1].name = nPizza /\ items[2].name = nPizza
    /\ \E i \in 1..Len(PlanItemsInOrder) : PlanItemsInOrder[i].name = nPizza

\* C2: each finished slot holds between 1 and 6 items, has total >= 1200 or
\* size 6, and without its last-added item had total < 1200 and size < 6.
C2_SlotBounds ==
    \A k \in 1..Len(MealOrder) :
        SlotFinished(k) =>
            LET s    == plan[MealOrder[k]]
                size == Len(s)
            IN  /\ 1 <= size /\ size <= SlotCap
                /\ SumCalories(s) >= CalorieGoal \/ size = SlotCap
                /\ SumCalories(SubSeq(s, 1, size - 1)) < CalorieGoal
                /\ size - 1 < SlotCap

\* C2 witness: build_plan has returned and Dinner stopped on reaching exactly
\* 1200 with its fourth item.
C2_Witness ==
    /\ Returned
    /\ Len(plan["Dinner"]) = 4
    /\ SumCalories(plan["Dinner"]) = CalorieGoal

\* C8: every pick has calories >= those of every item of the combined list
\* whose name was unused when it was made; picks are in non-increasing calorie
\* order, and every Breakfast item has calories >= every Dinner item.
C8_GreedyMax ==
    LET all       == items \o ALWAYS_AVAILABLE
        picked(k) == items_sorted[picks[k]]
        usedAt(k) == {picked(j).name : j \in 1..(k - 1)}
    IN  /\ Len(PlanItemsInOrder) = Len(picks)
        /\ \A k \in 1..Len(picks) :
              /\ PlanItemsInOrder[k] = picked(k)
              /\ \A i \in 1..Len(all) :
                    all[i].name \notin usedAt(k)
                        => picked(k).calories >= all[i].calories
        /\ \A k \in 1..(Len(picks) - 1) :
              picked(k).calories >= picked(k + 1).calories
        /\ \A b \in 1..Len(plan["Breakfast"]) :
              \A d \in 1..Len(plan["Dinner"]) :
                 plan["Breakfast"][b].calories >= plan["Dinner"][d].calories

\* C8 witness: build_plan has returned a plan in which an extracted item is
\* in Dinner and Dinner holds at least two items.
C8_Witness ==
    /\ Returned
    /\ Len(plan["Dinner"]) >= 2
    /\ \E i \in 1..Len(items) : plan["Dinner"][1] = items[i]

\* C10: for extracted items with non-negative calories, a pass of a slot's
\* fill loop always finds an item with an unused name: the state where the
\* loop must go on and the scan finds nothing is unreachable, and the loop
\* makes at most 6 picks per slot.
C10_NeverStuck ==
    (\A i \in 1..Len(items) : items[i].calories >= 0) =>
        /\ ( pc = "while" /\ KeepFilling(meal_total, Len(plan[CurMeal]))
               => FirstUnused(items_sorted, used) # 0 )
        /\ Len(picks) <= SlotCap * Len(MealOrder)

\* C10 witness: with no extracted item at all, Dinner is about to make its
\* fourth pick, the seventh of the plan.
C10_Witness ==
    /\ pc = "while"
    /\ items = <<>>
    /\ meal_idx = 2
    /\ Len(picks) = 6
    /\ KeepFilling(meal_total, Len(plan[CurMeal]))

(***************************************************************************)
(* Claims about fetch_json and main.                                       *)
(***************************************************************************)
SuccessStatus(r) == ~r.raised /\ r.status = 200
ParsedOK(r)      == ~r.raised /\ r.status = 200 /\ r.parses

RequestsInOrder ==
    /\ Len(requested) <= Len(candidates)
    /\ Len(requested) = fetch_i
    /\ \A j \in 1..Len(requested) : requested[j].url = candidates[j]

\* C3 as stated: candidates are requested in list order, the data returned is
\* that of the first candidate that answers with a success status, and no
\* candidate after that one is requested.
C3_FirstSuccessStatus ==
    /\ RequestsInOrder
    /\ \A j \in 1..(Len(requested) - 1) : ~SuccessStatus(requested[j].resp)
    /\ data_from # 0 =>
          /\ data_from = Len(requested)
          /\ SuccessStatus(requested[data_from].resp)
    /\ err = "fetch_json" =>
          /\ Len(requested) = Len(candidates)
          /\ \A j \in 1..Len(requested) : ~SuccessStatus(requested[j].resp)

\* C3 as amended: candidates are requested in list order; a network error, a
\* status other than 200 and a 200 whose body does not parse are all
\* swallowed; the data returned is that of the first candidate that answers
\* 200 with a body that parses, and no candidate after that one is requested,
\* then or later in the run.
C3_FirstParsed200 ==
    /\ RequestsInOrder
    /\ \A j \in 1..(Len(requested) - 1) : ~ParsedOK(requested[j].resp)
    /\ data_from # 0 =>
          /\ data_from = Len(requested)
          /\ ParsedOK(requested[data_from].resp)
    /\ data_from = 0 =>
          \A j \in 1..Len(requested) : ~ParsedOK(requested[j].resp)
    /\ err = "fetch_json" => Len(requested) = Len(candidates)

\* C3 witness: the run is over; of three candidates the first answered 200
\* with a body that does not parse, the second was accepted and the third
\* was never requested.
C3_Witness ==
    /\ pc = "done"
    /\ Len(candidates) = 3
    /\ Len(requested) = 2
    /\ data_from = 2
    /\ requested[1].resp = Response(FALSE, 200, FALSE)

\* C4 as stated: a run ends in error only by the error of fetch_json, raised
\* when every candidate failed or there was none; no other step ends a run in
\* error, so a run in which a candidate was accepted does not end in error.
C4_SingleFatalPath ==
    pc = "error" =>
        /\ err = "fetch_json"
        /\ data_from = 0
        /\ Len(requested) = Len(candidates)
        /\ \A j \in 1..Len(requested) : ~ParsedOK(requested[j].resp)

\* C9: once the page is scanned, a non-empty link scan is the candidate list
\* and no guessed URL is ever requested; an empty link scan makes the
\* candidate list the three guessed URLs in the order breakfast, lunch,
\* dinner, or the empty list when the page URL has no school slug.
C9_SlugOnlyAsFallback ==
    ~IsNone(html) =>
        LET links   == LinkScan(Val(html))
            guessed == guess_api_by_slug(page_url, today)
        IN  /\ links # <<>> =>
                  /\ candidates = links
                  /\ \A j \in 1..Len(requested) :
                        /\ requested[j].url = links[j]
                        /\ requested[j].url \notin Range(guessed)
            /\ links = <<>> =>
                  IF IsNone(SchoolSlug(page_url.path))
                  THEN candidates = <<>>
                  ELSE /\ Len(candidates) = 3
                       /\ candidates = guessed
                       /\ candidates[1].path[7] = "breakfast"
                       /\ candidates[2].path[7] = "lunch"
                       /\ candidates[3].path[7] = "dinner"
                       /\ \A i \in 1..3 :
                             candidates[i].path[5] = Val(SchoolSlug(page_url.path))

\* C9 witness: the page has a school slug and two endpoint links, both links
\* failed and fetch_json raised, having requested the two links only.
C9_Witness ==
    /\ err = "fetch_json"
    /\ ~IsNone(SchoolSlug(page_url.path))
    /\ Len(LinkScan(Val(html))) = 2
    /\ Len(requested) = 2

(***************************************************************************)
(* Claims about extract_items.                                             *)
(***************************************************************************)
ExtractEnded ==
    \/ pc = "build_plan"
    \/ pc = "error" /\ err = "extract_items"

NotExcluded(mi) == ~Excluded(EntryName(mi))
Kept == SelectSeq(seen, NotExcluded)

\* C5 as stated: no item whose name contains fish, salmon or tilapia in any
\* letter case is in the list; every entry of today's day records whose name
\* contains none of them yields exactly one item, in the entries' order.
C5_ExcludedAndKept ==
    /\ \A i \in 1..Len(items) : ~Excluded(items[i].name)
    /\ ExtractEnded =>
          /\ pc = "error" => Kept = <<>>
          /\ Len(items) = Len(Kept)
          /\ \A i \in 1..Len(items) : items[i].name = EntryName(Kept[i])

\* the calorie value the claim gives an entry
ClaimAggregated(mi) ==
    IF mi.aggregated_data.present /\ ~IsNone(mi.aggregated_data.value)
    THEN Val(mi.aggregated_data.value).calories
    ELSE None
ClaimCalories(mi) ==
    IF TruthyNum(RoundedCalories(mi)) THEN Val(RoundedCalories(mi))
    ELSE IF TruthyNum(ClaimAggregated(mi)) THEN Val(ClaimAggregated(mi))
    ELSE 250

\* C7 as stated: every non-excluded entry yields an item whose calories are
\* the rounded-nutrition value when present and non-zero, else the
\* aggregated-data value when present and non-zero, else 250; never 0.
C7_CaloriesRule ==
    ExtractEnded =>
        /\ Len(items) = Len(Kept)
        /\ \A i \in 1..Len(items) :
              /\ i <= Len(Kept) => items[i].calories = ClaimCalories(Kept[i])
              /\ items[i].calories # 0

\* the dash-separated text of the date of TodayDates
TodayIso == "2026-11-02"

\* C6: while no day record taken has a date field equal to today's date,
\* whichever of the keys days and menu_days are missing, empty or lists,
\* extract_items has produced no item and raised no error, and so returns
\* the empty list.
C6_NoTodayNoItems ==
    ( /\ pc \in {"for_d", "for_mi", "build_plan", "error"}
      /\ today = Date(2026, 11, 2)
      /\ Some(TodayIso) \notin dates_seen )
    => /\ items = <<>>
       /\ seen = <<>>
       /\ pc \notin {"for_mi", "error"}
       /\ err = ""

\* C6 witness: extract_items has returned after two day records from the
\* key menu_days, one without a date and one dated today in unpadded digits.
C6_Witness ==
    /\ pc = "build_plan"
    /\ days_src = "menu_days"
    /\ dates_seen = {None, Some("2026-11-2")}
    /\ items = <<>>

====
